---- MODULE Spec2Model ----
(***************************************************************************)
(* A model of the retrieval-and-indexing core of the RAG knowledge         *)
(* assistant: the chunker (services/rag/chunk.py), the ingestion           *)
(* orchestrator (services/rag/ingest.py), the index builder                *)
(* (services/rag/index.py), the retriever (services/rag/retrieve.py) and   *)
(* the reranker (services/rag/rerank.py), as the web app (apps/web/app.py)  *)
(* drives them.                                                            *)
(*                                                                         *)
(* A Python str is a sequence of one-character strings; positions are      *)
(* 0-based as in the source, so the character at position i of s is        *)
(* s[i + 1].                                                               *)
(***************************************************************************)
EXTENDS Integers, Sequences, FiniteSets, TLC

VARIABLES
    \* ---- split_text (chunk.py:9-58), one call in progress
    text,           \* the argument text
    chunk_size,     \* the argument chunk_size
    chunk_overlap,  \* the argument chunk_overlap
    start,          \* the local start
    chunks,         \* the local chunks: the list of strings built so far
    pcSplit,        \* "loop": at the while test, "done": returned
    cuts,           \* history: per emitted chunk, its start and how it was cut
    \* ---- the processed directory and the index directory on disk
    processed,      \* path -> document record, the <doc_id>.json files
    manifest,       \* manifest.json: whether it exists, and its entries
    indexFile,      \* vector.index: whether it exists, its vectors, and
                    \* (history) the chunk list they were computed from
    storeFile,      \* doc_store.pkl: whether it exists, its chunks
    \* ---- build_index (index.py:31-73), one run in progress
    pcBuild,        \* "idle", "built" (index in memory), "indexWritten"
    buildChunks,    \* the local chunks
    lastBuild,      \* history: how the last finished run ended
    \* ---- a Retriever (retrieve.py:9-47) and a Reranker (rerank.py:13-25)
    heap,           \* the dict objects in memory, by reference
    retr,           \* the Retriever: its index vectors, its chunks (references)
    results,        \* the list retrieve returned, which rerank sorts in place
    reranked,       \* the list rerank returned
    searched,       \* history: the last search: top_k, positions, scores
    rerankIn,       \* history: the last rerank call: its input, scores, top_k
    pcQuery,        \* "none", "ready", "retrieved", "reranked"
    \* ---- ingest (ingest.py:68-107)
    lastRun,        \* history: the last run: the listing of its input
                    \* directory, how each file fared, and the source
                    \* filenames that had a record before it
    \* ---- one call of a function of eval/metrics.py or of create_chunks
    call,           \* the function called and its arguments
    ret,            \* what the call returned
    \* ---- the GeneratorService (generate.py:17-145)
    openai_client,  \* self.openai_client: "None" or "client"
    local_pipeline, \* self.local_pipeline: "None" or "pipeline"
    \* ---- the web app (app.py:26-171, retrieve.py:49-59)
    retriever,      \* app.py's global retriever: NoHandle or a Retriever
    shared_retriever, \* retrieve.py's _shared_retriever
    chat,           \* what the last chat_fn call did
    app             \* history of the app's calls

splitVars == <<text, chunk_size, chunk_overlap, start, chunks, pcSplit, cuts>>

diskVars == <<processed, manifest, indexFile, storeFile, lastRun>>

buildVars == <<pcBuild, buildChunks, lastBuild>>

queryVars == <<heap, retr, results, reranked, searched, rerankIn, pcQuery>>

callVars == <<call, ret, openai_client, local_pipeline>>

appVars == <<retriever, shared_retriever, chat, app>>

vars == <<splitVars, diskVars, buildVars, queryVars, callVars, appVars>>

--------------------------------------------------------------------------
(* Bounds of the model *)

MaxTextLen == 5
MaxChunkSize == 3
MaxFilesPerRun == 2
MaxTopK == 3

--------------------------------------------------------------------------
(* Python str primitives *)

NL == "\n"
SP == " "

Max(a, b) == IF a >= b THEN a ELSE b
Min(a, b) == IF a <= b THEN a ELSE b

SetMax(S) == CHOOSE x \in S : \A y \in S : y <= x

\* s[a:b] for 0 <= a, with Python's clamping of b to len(s)
Slice(s, a, b) == SubSeq(s, a + 1, Min(b, Len(s)))

\* s.rfind(sub, lo, hi): the highest position i with lo <= i and
\* i + len(sub) <= hi at which sub occurs, or -1
RFind(s, sub, lo, hi) ==
    LET top == Min(hi, Len(s)) - Len(sub)
        hits == {i \in lo..top : SubSeq(s, i + 1, i + Len(sub)) = sub}
    IN  IF hits = {} THEN -1 ELSE SetMax(hits)

--------------------------------------------------------------------------
(* split_text, chunk.py:9-58 *)

\* Mutation of FindBoundary: the searches run one position past the window
FindBoundary_PastEnd(t, st, end, co) ==
    LET search_start == Max(st, end - co)
        double_newline_pos == RFind(t, <<NL, NL>>, search_start, end + 1)
        newline_pos == RFind(t, <<NL>>, search_start, end + 1)
        space_pos == RFind(t, <<SP>>, search_start, end + 1)
    IN  IF double_newline_pos # -1 THEN double_newline_pos + 2
        ELSE IF newline_pos # -1 THEN newline_pos + 1
        ELSE IF space_pos # -1 THEN space_pos + 1
        ELSE -1

\* chunk.py:29-44: the break point of the window [start, end), or -1
FindBoundary(t, st, end, co) ==
    LET search_start == Max(st, end - co)
        double_newline_pos == RFind(t, <<NL, NL>>, search_start, end)
        newline_pos == RFind(t, <<NL>>, search_start, end)
        space_pos == RFind(t, <<SP>>, search_start, end)
    IN  IF double_newline_pos # -1 THEN double_newline_pos + 2
        ELSE IF newline_pos # -1 THEN newline_pos + 1
        ELSE IF space_pos # -1 THEN space_pos + 1
        ELSE -1

\* Mutation of ForcedStart: the update of start is lost on a forced cut
ForcedStart_NoAdvance(st, end, co) == st

\* Mutation of ForcedStart: the forced cut forgets the overlap
ForcedStart_NoOverlap(st, end, co) == end

\* chunk.py:52-56: the next start after a forced cut at end
ForcedStart(st, end, co) ==
    LET backtracked == end - co
    IN  Max(backtracked, end - co)

\* One iteration of the while loop body (chunk.py:22-56) from start st:
\* the chunk appended, the next start, whether the loop breaks, how it cut
SplitIter(t, cs, co, st) ==
    LET end == st + cs
        boundary == FindBoundary(t, st, end, co)
    IN  IF end >= Len(t)
        THEN [chunk |-> Slice(t, st, Len(t)), next |-> st, stop |-> TRUE,
              kind |-> "final"]
        ELSE IF boundary # -1
        THEN [chunk |-> Slice(t, st, boundary), next |-> boundary,
              stop |-> FALSE, kind |-> "boundary"]
        ELSE [chunk |-> Slice(t, st, end), next |-> ForcedStart(st, end, co),
              stop |-> FALSE, kind |-> "forced"]

\* The whole call, as the loop computes it (used by create_chunks)
RECURSIVE SplitFrom(_, _, _, _, _)
SplitFrom(t, cs, co, st, fuel) ==
    IF st >= Len(t) \/ fuel = 0 THEN <<>>
    ELSE LET it == SplitIter(t, cs, co, st)
         IN  IF it.stop THEN <<it.chunk>>
             ELSE <<it.chunk>> \o SplitFrom(t, cs, co, it.next, fuel - 1)

split_text(t, cs, co) ==
    IF t = <<>> THEN <<>> ELSE SplitFrom(t, cs, co, 0, Len(t) + 1)

--------------------------------------------------------------------------
(* More Python str primitives, used by the chunker and the ingestion *)

IsSpace(c) == c \in {SP, NL, "\t", "\r"}

\* s.strip()
RECURSIVE LStrip(_)
LStrip(s) == IF s # <<>> /\ IsSpace(Head(s)) THEN LStrip(Tail(s)) ELSE s

RECURSIVE RStrip(_)
RStrip(s) ==
    IF s # <<>> /\ IsSpace(s[Len(s)]) THEN RStrip(SubSeq(s, 1, Len(s) - 1))
    ELSE s

Strip(s) == RStrip(LStrip(s))

\* s.split('\n'): at least one piece, the empty string for empty s
RECURSIVE SplitNL(_, _)
SplitNL(s, cur) ==
    IF s = <<>> THEN <<cur>>
    ELSE IF Head(s) = NL THEN <<cur>> \o SplitNL(Tail(s), <<>>)
    ELSE SplitNL(Tail(s), Append(cur, Head(s)))

SplitLines(s) == SplitNL(s, <<>>)

\* '\n'.join(lines)
RECURSIVE JoinNL(_)
JoinNL(lines) ==
    IF lines = <<>> THEN <<>>
    ELSE IF Len(lines) = 1 THEN lines[1]
    ELSE lines[1] \o <<NL>> \o JoinNL(Tail(lines))

\* s.replace(old, new) for a one-character old
RECURSIVE Replace(_, _, _)
Replace(s, old, new) ==
    IF s = <<>> THEN <<>>
    ELSE (IF Head(s) = old THEN new ELSE <<Head(s)>>) \o Replace(Tail(s), old, new)

\* str(n) for n >= 0
Digits == <<"0", "1", "2", "3", "4", "5", "6", "7", "8", "9">>

RECURSIVE IntToStr(_)
IntToStr(n) ==
    IF n < 10 THEN <<Digits[n + 1]>>
    ELSE IntToStr(n \div 10) \o <<Digits[(n % 10) + 1]>>

\* the number of leading characters of s that satisfy being c / whitespace
RECURSIVE LeadingHashes(_)
LeadingHashes(s) ==
    IF s # <<>> /\ Head(s) = "#" THEN 1 + LeadingHashes(Tail(s)) ELSE 0

--------------------------------------------------------------------------
(* extract_sections and create_chunks, chunk.py:60-130 *)

TitlePrefixLen == 10
DefaultChunkSize == 1000
DefaultChunkOverlap == 200

S_Introduction == <<"I", "n", "t", "r", "o", "d", "u", "c", "t", "i", "o", "n">>
S_SectionPrefix == <<"S", "e", "c", "t", "i", "o", "n", ":", " ">>
S_Unknown == <<"u", "n", "k", "n", "o", "w", "n">>

\* chunk.py:70, 80-81: re.match(r'^(#+)\s+(.*)', line); the level and the
\* stripped title when the line is a header
HeaderMatch(line) ==
    LET level == LeadingHashes(line)
        rest == SubSeq(line, level + 1, Len(line))
    IN  IF level >= 1 /\ rest # <<>> /\ IsSpace(Head(rest))
        THEN [ok |-> TRUE, level |-> level, title |-> Strip(LStrip(rest))]
        ELSE [ok |-> FALSE, level |-> 0, title |-> <<>>]

\* chunk.py:73-78, 87-92: the finished section, when it holds any line
SavedSection(cur) ==
    IF cur.content # <<>>
    THEN <<[title |-> cur.title, content |-> Strip(JoinNL(cur.content)),
            level |-> cur.level]>>
    ELSE <<>>

\* chunk.py:69-84: the loop over the lines
RECURSIVE SectionsFrom(_, _)
SectionsFrom(lines, cur) ==
    IF lines = <<>> THEN SavedSection(cur)
    ELSE LET m == HeaderMatch(Head(lines))
         IN  IF m.ok
             THEN SavedSection(cur) \o
                  SectionsFrom(Tail(lines),
                               [title |-> m.title, content |-> <<>>,
                                level |-> m.level])
             ELSE SectionsFrom(Tail(lines),
                               [cur EXCEPT !.content = Append(@, Head(lines))])

extract_sections(t) ==
    SectionsFrom(SplitLines(t),
                 [title |-> S_Introduction, content |-> <<>>, level |-> 0])

\* chunk.py:124: the chunk id of chunk i of a section
ChunkId(doc_id, title, i) ==
    doc_id \o <<"_">> \o Slice(title, 0, TitlePrefixLen) \o <<"_">> \o IntToStr(i)

\* Mutation of Contextualized: the title is prepended in every section
Contextualized_Always(title, rc) == S_SectionPrefix \o title \o <<NL>> \o rc

\* chunk.py:117-119: the section title is prepended, except in the intro
Contextualized(title, rc) ==
    IF title # S_Introduction
    THEN S_SectionPrefix \o title \o <<NL>> \o rc
    ELSE rc

\* chunk.py:115-128: the chunks of one section, raw chunk i onwards (0-based)
RECURSIVE SectionChunks(_, _, _, _)
SectionChunks(section, raw, i, metadata) ==
    IF i >= Len(raw) THEN <<>>
    ELSE LET rc == raw[i + 1]
             contextualized_content == Contextualized(section.title, rc)
             doc_id == IF "doc_id" \in DOMAIN metadata THEN metadata.doc_id
                       ELSE S_Unknown
             update == [section_title |-> section.title,
                        chunk_id |-> ChunkId(doc_id, section.title, i),
                        original_text |-> rc]
             chunk_meta == update @@ metadata
         IN  <<[content |-> contextualized_content, metadata |-> chunk_meta]>>
             \o SectionChunks(section, raw, i + 1, metadata)

\* chunk.py:104-128: the loop over the sections
RECURSIVE ChunksOfSections(_, _, _, _)
ChunksOfSections(sections, metadata, cs, co) ==
    IF sections = <<>> THEN <<>>
    ELSE LET section == Head(sections)
             mine == IF section.content = <<>> THEN <<>>
                     ELSE SectionChunks(section,
                                        split_text(section.content, cs, co),
                                        0, metadata)
         IN  mine \o ChunksOfSections(Tail(sections), metadata, cs, co)

create_chunks(t, metadata, cs, co) ==
    ChunksOfSections(extract_sections(t), metadata, cs, co)

--------------------------------------------------------------------------
(* process_file and ingest, ingest.py:33-107 *)

Uppers == <<"A", "B", "C", "D", "E", "F", "G", "H", "I", "J", "K", "L", "M",
            "N", "O", "P", "Q", "R", "S", "T", "U", "V", "W", "X", "Y", "Z">>
Lowers == <<"a", "b", "c", "d", "e", "f", "g", "h", "i", "j", "k", "l", "m",
            "n", "o", "p", "q", "r", "s", "t", "u", "v", "w", "x", "y", "z">>

\* s.lower()
LowerChar(c) ==
    IF \E i \in DOMAIN Uppers : Uppers[i] = c
    THEN Lowers[CHOOSE i \in DOMAIN Uppers : Uppers[i] = c]
    ELSE c

Lower(s) == [i \in DOMAIN s |-> LowerChar(s[i])]

\* os.path.splitext(name)[1]: from the last dot on, unless the name has no
\* dot after its leading dots
SplitExt(name) ==
    LET lead == CHOOSE n \in 0..Len(name) :
                    /\ \A i \in 1..n : name[i] = "."
                    /\ n < Len(name) => name[n + 1] # "."
        dot == RFind(name, <<".">>, lead, Len(name))
    IN  IF dot = -1 \/ dot < lead + 1 THEN <<>> ELSE Slice(name, dot, Len(name))

EndsWith(s, suffix) ==
    Len(s) >= Len(suffix) /\ SubSeq(s, Len(s) - Len(suffix) + 1, Len(s)) = suffix

X_pdf == <<".", "p", "d", "f">>
X_html == <<".", "h", "t", "m", "l">>
X_htm == <<".", "h", "t", "m">>
X_txt == <<".", "t", "x", "t">>
X_md == <<".", "m", "d">>
X_json == <<".", "j", "s", "o", "n">>

\* ingest.py:72: the glob patterns, in the order they are tried
GlobExts == <<X_pdf, X_html, X_txt, X_md>>

\* glob.glob(os.path.join(input_dir, '*' + ext)): the files of the listing
\* whose name ends in ext, hidden files excepted, in listing order
GlobMatch(ext, name) == name # <<>> /\ name[1] # "." /\ EndsWith(name, ext)

RECURSIVE SelectSeq2(_, _)
SelectSeq2(listing, ext) ==
    IF listing = <<>> THEN <<>>
    ELSE (IF GlobMatch(ext, Head(listing).name) THEN <<Head(listing)>> ELSE <<>>)
         \o SelectSeq2(Tail(listing), ext)

\* ingest.py:71-73
RECURSIVE GlobAll(_, _)
GlobAll(listing, exts) ==
    IF exts = <<>> THEN <<>>
    ELSE SelectSeq2(listing, Head(exts)) \o GlobAll(listing, Tail(exts))

\* ingest.py:33-35
clean_text(t) == Replace(t, "NUL", <<>>)

\* ingest.py:54: doc_id = filename.replace(' ', '_')
DocIdOf(filename) == Replace(filename, SP, <<"_">>)

NoResult == [none |-> TRUE]

\* ingest.py:37-66; the text the format's loader extracts is the file's text
process_file(file) ==
    LET filename == file.name
        ext == Lower(SplitExt(filename))
    IN  IF ext \in {X_pdf, X_html, X_htm, X_txt, X_md}
        THEN LET cleaned_text == clean_text(file.text)
                 doc_id == DocIdOf(filename)
                 metadata == [source |-> filename, doc_id |-> doc_id,
                              created_at |-> file.ctime]
             IN  [none |-> FALSE,
                  metadata |-> metadata,
                  chunks |-> create_chunks(cleaned_text, metadata,
                                           DefaultChunkSize, DefaultChunkOverlap)]
        ELSE NoResult

\* The files that input directories are made of
N_ab_space == <<"a", " ", "b", ".", "m", "d">>
N_ab_under == <<"a", "_", "b", ".", "m", "d">>
N_c == <<"c", ".", "t", "x", "t">>

T_twoSections == <<"x", NL, "#", " ", "T", NL, "y">>
T_sameTitle == <<"#", " ", "S", NL, "b", NL, "#", " ", "S", NL, "c">>
T_plain == <<"a", "a">>
T_longTitles ==
    <<"#", " ", "B", "a", "c", "k", "g", "r", "o", "u", "n", "d", " ", "A", NL,
      "b", NL,
      "#", " ", "B", "a", "c", "k", "g", "r", "o", "u", "n", "d", " ", "B", NL,
      "c">>

InputFiles ==
    { [name |-> N_ab_space, text |-> T_twoSections, ctime |-> <<"1">>],
      [name |-> N_ab_under, text |-> T_sameTitle, ctime |-> <<"2">>],
      [name |-> N_c, text |-> T_plain, ctime |-> <<"3">>],
      [name |-> N_c, text |-> T_longTitles, ctime |-> <<"4">>] }

\* Two more files: one whose pattern ingest.py:72 does not list, one of a
\* format process_file has no loader for
N_d_htm == <<"d", ".", "h", "t", "m">>
N_e_json == <<"e", ".", "j", "s", "o", "n">>
T_page == <<"p">>

\* a text file with nothing in it
N_e_txt == <<"e", ".", "t", "x", "t">>
F_empty == [name |-> N_e_txt, text |-> <<>>, ctime |-> <<"7">>]

ExtraFiles ==
    { [name |-> N_d_htm, text |-> T_page, ctime |-> <<"5">>],
      [name |-> N_e_json, text |-> T_page, ctime |-> <<"6">>],
      F_empty }

AllFiles == InputFiles \cup ExtraFiles

\* The listings of an input directory made of the given files: files of
\* pairwise distinct names, in the order the operating system lists them
ListingsOf(files) ==
    UNION { {l \in [1..n -> files] :
                \A i, j \in 1..n : i # j => l[i].name # l[j].name}
            : n \in 0..MaxFilesPerRun }

Listings == ListingsOf(InputFiles)

AllListings == ListingsOf(AllFiles)

\* process_file on each file of the universe, computed once
ProcessedFile == [f \in AllFiles |-> process_file(f)]

\* How the processing of one file goes (ingest.py:82-103): "ok"; "process":
\* process_file raises, in the loader or in the chunker; "open": opening
\* the record for writing raises; "dump": json.dump raises after the open
\* has truncated the record
Outcomes == {"ok", "process", "open", "dump"}

AllOk == [f \in AllFiles |-> "ok"]

\* what a write stopped half-way leaves at the path
PartialRecord == [partial |-> TRUE]

\* Mutation of Caught: only the errors of process_file are handled
Caught_ProcessOnly(outcome) == outcome = "process"

\* ingest.py:102: except Exception catches every error of the try block
Caught(outcome) == outcome \in {"process", "open", "dump"}

\* ingest.py:90-91: the path of a record in the processed directory
RecordPath(doc_id) == doc_id \o X_json

\* ingest.py:80-103: the loop over the discovered files; dir is the
\* processed directory (path -> record), man the manifest being built,
\* outcome how each file fares.  escaped: an error left the loop.
RECURSIVE IngestLoop(_, _, _, _)
IngestLoop(files, outcome, dir, man) ==
    IF files = <<>> THEN [dir |-> dir, manifest |-> man, escaped |-> FALSE]
    ELSE LET f == Head(files)
             result == ProcessedFile[f]
             stop(d) == [dir |-> d, manifest |-> man, escaped |-> TRUE]
         IN  IF outcome[f] = "process"
             THEN IF Caught(outcome[f])
                  THEN IngestLoop(Tail(files), outcome, dir, man)
                  ELSE stop(dir)
             ELSE IF result.none
             THEN IngestLoop(Tail(files), outcome, dir, man)
             ELSE LET out_path == RecordPath(result.metadata.doc_id)
                      record == [metadata |-> result.metadata,
                                 chunks |-> result.chunks]
                      written == [p \in DOMAIN dir \cup {out_path} |->
                                     IF p # out_path THEN dir[p]
                                     ELSE IF outcome[f] = "dump"
                                     THEN PartialRecord ELSE record]
                      entry == [doc_id |-> result.metadata.doc_id,
                                path |-> out_path,
                                chunk_count |-> Len(result.chunks)]
                  IN  IF outcome[f] = "open"
                      THEN IF Caught(outcome[f])
                           THEN IngestLoop(Tail(files), outcome, dir, man)
                           ELSE stop(dir)
                      ELSE IF outcome[f] = "dump"
                      THEN IF Caught(outcome[f])
                           THEN IngestLoop(Tail(files), outcome, written, man)
                           ELSE stop(written)
                      ELSE IngestLoop(Tail(files), outcome, written,
                                      Append(man, entry))

\* ingest.py:71-73 on each listing, computed once
Discovered == [l \in AllListings |-> GlobAll(l, GlobExts)]

\* ingest.py:68-107: the records and the manifest entries a run leaves, the
\* files of the listing faring as outcome says
ingest_with(listing, outcome, dir) ==
    IngestLoop(Discovered[listing], outcome, dir, <<>>)

\* ingest.py:68-107: a run in which no file fails
ingest(listing, dir) == ingest_with(listing, AllOk, dir)

\* ingest.py:105-107: the manifest a run leaves: rewritten, unless an error
\* left the loop before
ManifestAfter(r, old) ==
    IF r.escaped THEN old ELSE [exists |-> TRUE, entries |-> r.manifest]

\* the names in a listing
NamesOf(listing) == {listing[i].name : i \in DOMAIN listing}

NoRun ==
    [ran |-> FALSE, files |-> <<>>, outcome |-> <<>>, escaped |-> FALSE,
     before |-> {}]

\* the history of a run: how each file fared, whether an error left
\* ingest, and the names the earlier runs listed
RunOf(listing, outcome, escaped, last) ==
    [ran |-> TRUE, files |-> listing, outcome |-> outcome,
     escaped |-> escaped,
     before |-> last.before \cup NamesOf(last.files)]

--------------------------------------------------------------------------
(* The embedding provider, embed.py:22-32, and the index, index.py:10-73 *)

\* The embedding model is an external, deterministic function of the text.
\* It is modelled by a hash of the text into eight vectors of two
\* dimensions whose lengths are whole numbers.
CodeTable == Lowers \o Uppers \o Digits \o <<SP, NL, "#", "_", ".", ":">>

CharCode(c) == CHOOSE i \in DOMAIN CodeTable : CodeTable[i] = c

RECURSIVE TextHash(_, _)
TextHash(s, i) ==
    IF i > Len(s) THEN 0 ELSE (i * CharCode(s[i]) + TextHash(s, i + 1)) % 8

Directions == << <<3, 4>>, <<4, 3>>, <<5, 0>>, <<0, 5>> >>

EmbedOne(s) ==
    LET h == TextHash(s, 1)
        d == Directions[(h % 4) + 1]
        k == 1 + (h \div 4)
    IN  <<k * d[1], k * d[2]>>

\* embed.py:22-32: one vector per text, in order
Embed(texts) == [i \in DOMAIN texts |-> EmbedOne(texts[i])]

ISqrt(n) == CHOOSE r \in 0..n : r * r <= n /\ (r + 1) * (r + 1) > n

\* faiss.normalize_L2 on one vector: components in fifths of the unit
NormalizeOne(v) ==
    LET norm == ISqrt(v[1] * v[1] + v[2] * v[2])
    IN  IF norm = 0 THEN v ELSE <<(5 * v[1]) \div norm, (5 * v[2]) \div norm>>

Normalize(vs) == [i \in DOMAIN vs |-> NormalizeOne(vs[i])]

InnerProduct(u, v) == u[1] * v[1] + u[2] * v[2]

\* index.py:17-20: the chunks of the records the manifest names, in order
RECURSIVE ManifestChunks(_, _)
ManifestChunks(entries, dir) ==
    IF entries = <<>> THEN <<>>
    ELSE dir[Head(entries).path].chunks \o ManifestChunks(Tail(entries), dir)

\* index.py:24-28: the chunks of the records in the order the glob lists them
RECURSIVE GlobChunks(_, _)
GlobChunks(paths, dir) ==
    IF paths = <<>> THEN <<>>
    ELSE dir[Head(paths)].chunks \o GlobChunks(Tail(paths), dir)

\* every order in which a glob may list the paths of S
Orderings(S) ==
    {o \in [1..Cardinality(S) -> S] : \A i, j \in DOMAIN o : i # j => o[i] # o[j]}

\* index.py:10-29: the chunk lists load_processed_data can return
load_processed_data(dir, man) ==
    IF man.exists
    THEN {ManifestChunks(man.entries, dir)}
    ELSE {GlobChunks(o, dir) : o \in Orderings(DOMAIN dir)}

\* Mutation of IndexVectors: the text without its section header is embedded
IndexVectors_OriginalText(cks) ==
    Normalize(Embed([i \in DOMAIN cks |-> cks[i].metadata.original_text]))

\* index.py:42-61: the vectors the built index holds, in position order
IndexVectors(cks) == Normalize(Embed([i \in DOMAIN cks |-> cks[i].content]))

--------------------------------------------------------------------------
(* The index lifecycle: ingest runs and build_index runs *)

NoIndex == [exists |-> FALSE, vecs |-> <<>>, of |-> <<>>]
NoStore == [exists |-> FALSE, chunks |-> <<>>]

\* No function of eval/metrics.py, create_chunks or generate has been called
NoCall == [fn |-> "none"]
NotReturned == [returned |-> FALSE]

CallIdle ==
    /\ call = NoCall
    /\ ret = NotReturned
    /\ openai_client = "None"
    /\ local_pipeline = "None"

\* The web app is not loaded
NoHandle == [loaded |-> FALSE]
NoChat == [answered |-> FALSE]
NoApp == [index_dir |-> FALSE, cleared |-> FALSE, last |-> "none",
          replaced |-> FALSE]

AppIdle ==
    /\ retriever = NoHandle
    /\ shared_retriever = NoHandle
    /\ chat = NoChat
    /\ app = NoApp

\* Empty directories, nothing running
InitIndex ==
    /\ processed = <<>>
    /\ manifest = [exists |-> FALSE, entries |-> <<>>]
    /\ indexFile = NoIndex
    /\ storeFile = NoStore
    /\ lastRun = NoRun
    /\ pcBuild = "idle"
    /\ buildChunks = <<>>
    /\ lastBuild = "none"

\* ingest.py:68-107: one run over an input directory; rebuilds are
\* single-writer, so no run starts while a build is in progress
Ingest ==
    /\ pcBuild = "idle"
    /\ \E listing \in Listings :
          LET r == ingest(listing, processed)
          IN  /\ processed' = r.dir
              /\ manifest' = ManifestAfter(r, manifest)
              /\ lastRun' = RunOf(listing, AllOk, FALSE, lastRun)
    /\ UNCHANGED <<indexFile, storeFile, buildVars, splitVars, queryVars,
                   callVars, appVars>>

\* Mutation of NoChunks: an empty chunk list is built like any other
NoChunks_Never(cks) == FALSE

\* index.py:38: if not chunks
NoChunks(cks) == cks = <<>>

\* index.py:32-63: load the chunks; return if there are none, else embed
\* them and build the index in memory
BuildStart ==
    /\ pcBuild = "idle"
    /\ \E cks \in load_processed_data(processed, manifest) :
          IF NoChunks(cks)
          THEN /\ lastBuild' = "noop"
               /\ UNCHANGED <<pcBuild, buildChunks>>
          ELSE /\ pcBuild' = "built"
               /\ buildChunks' = cks
               /\ UNCHANGED lastBuild
    /\ UNCHANGED <<diskVars, splitVars, queryVars,
                   callVars, appVars>>

\* index.py:66: faiss.write_index
BuildWriteIndex ==
    /\ pcBuild = "built"
    /\ indexFile' = [exists |-> TRUE, vecs |-> IndexVectors(buildChunks),
                     of |-> buildChunks]
    /\ pcBuild' = "indexWritten"
    /\ UNCHANGED <<processed, manifest, lastRun, storeFile, buildChunks, lastBuild,
                   splitVars, queryVars,
                   callVars, appVars>>

\* index.py:70-73: pickle.dump(chunks) and return
BuildWriteStore ==
    /\ pcBuild = "indexWritten"
    /\ storeFile' = [exists |-> TRUE, chunks |-> buildChunks]
    /\ pcBuild' = "idle"
    /\ buildChunks' = <<>>
    /\ lastBuild' = "wrote"
    /\ UNCHANGED <<processed, manifest, lastRun, indexFile, splitVars, queryVars,
                   callVars, appVars>>

\* index.py:47-71: the embedding call or a file write raises, or the
\* process is stopped; what was written stays
BuildFail ==
    /\ pcBuild \in {"built", "indexWritten"}
    /\ pcBuild' = "idle"
    /\ buildChunks' = <<>>
    /\ lastBuild' = "failed"
    /\ UNCHANGED <<diskVars, splitVars, queryVars,
                   callVars, appVars>>

NextIndex ==
    \/ Ingest
    \/ BuildStart
    \/ BuildWriteIndex
    \/ BuildWriteStore
    \/ BuildFail

\* split_text is not running in this specification
SplitIdle ==
    /\ text = <<>>
    /\ chunk_size = 1
    /\ chunk_overlap = 0
    /\ start = 0
    /\ chunks = <<>>
    /\ cuts = <<>>
    /\ pcSplit = "done"

--------------------------------------------------------------------------
(* Retriever and Reranker, retrieve.py:9-47 and rerank.py:13-25 *)

\* Python dicts are objects: heap is the sequence of the dicts in memory
\* and a reference is a position in it.  A dict is a function from its
\* keys; a chunk dict holds its metadata dict by reference.
SetField(d, k, v) == [x \in DOMAIN d \cup {k} |-> IF x = k THEN v ELSE d[x]]

\* list[idx] with Python's negative indices
PyGet(list, idx) == IF idx < 0 THEN list[Len(list) + idx + 1] ELSE list[idx + 1]

\* retrieve.py:20-21: pickle.load builds fresh dicts: chunk i at reference
\* i, its metadata at reference n + i
Unpickle(cks) ==
    [r \in 1..(2 * Len(cks)) |->
        IF r <= Len(cks)
        THEN [content |-> cks[r].content, metadata |-> Len(cks) + r]
        ELSE cks[r - Len(cks)].metadata]

\* the value of the chunk dict at reference r: its metadata followed
ChunkValue(h, r) == [h[r] EXCEPT !.metadata = h[h[r].metadata]]

\* retrieve.py:10-23
LoadRetriever(index, store) ==
    [index |-> index.vecs, chunks |-> [i \in DOMAIN store.chunks |-> i]]

\* the texts of the queries
Queries == { <<"a">>, <<"x", SP, "y">> }

\* retrieve.py:31-35: the normalized embedding of each query, computed once
QueryVector == [query \in Queries |-> NormalizeOne(EmbedOne(query))]

\* retrieve.py:38: index.search(q, k) on an exact inner-product index: k
\* positions by descending score, -1 where the index has no more vectors.
\* The order among equal scores is the library's: every one is possible.
Rankings(vecs, q, k) ==
    LET n == Len(vecs)
        m == Min(k, n)
        score(p) == InnerProduct(vecs[p + 1], q)
    IN  { [i \in 1..k |-> IF i <= m THEN o[i] ELSE -1] :
            o \in { f \in [1..m -> 0..(n - 1)] :
                      /\ \A i, j \in 1..m : i # j => f[i] # f[j]
                      /\ \A i \in 1..(m - 1) : score(f[i]) >= score(f[i + 1])
                      /\ \A p \in 0..(n - 1) :
                            (\A i \in 1..m : f[i] # p) =>
                                \A i \in 1..m : score(f[i]) >= score(p) } }

\* the score the search reports at a position; the lowest when none
NoMatchScore == 0 - 1000

SearchScores(vecs, q, positions) ==
    [i \in DOMAIN positions |->
        IF positions[i] = -1 THEN NoMatchScore
        ELSE InnerProduct(vecs[positions[i] + 1], q)]

\* Mutation of KeepPosition: the sentinel is not filtered out
KeepPosition_All(idx) == TRUE

\* retrieve.py:42
KeepPosition(idx) == idx # -1

\* Mutation of JoinChunk: the stored dict itself is scored and returned
JoinChunk_NoCopy(h, cks, idx, score) ==
    LET ref == PyGet(cks, idx)
    IN  [heap |-> [h EXCEPT ![ref] = SetField(@, "score", score)], ref |-> ref]

\* retrieve.py:43-45: a shallow copy of the stored dict, with the score
JoinChunk(h, cks, idx, score) ==
    LET copy == h[PyGet(cks, idx)]
    IN  [heap |-> Append(h, SetField(copy, "score", score)), ref |-> Len(h) + 1]

\* retrieve.py:40-47: the loop over the search's output, from entry i
RECURSIVE RetrieveLoop(_, _, _, _, _, _)
RetrieveLoop(h, cks, positions, scores, i, res) ==
    IF i > Len(positions) THEN [heap |-> h, results |-> res]
    ELSE IF ~KeepPosition(positions[i])
    THEN RetrieveLoop(h, cks, positions, scores, i + 1, res)
    ELSE LET j == JoinChunk(h, cks, positions[i], scores[i])
         IN  RetrieveLoop(j.heap, cks, positions, scores, i + 1,
                          Append(res, j.ref))

\* insert reference r into the list sorted by descending key, after every
\* element whose key is not smaller
SortKey(h, r, sign) == sign * h[r].rerank_score

RECURSIVE InsertDesc(_, _, _, _)
InsertDesc(sorted, r, h, sign) ==
    IF sorted = <<>> THEN <<r>>
    ELSE IF SortKey(h, Head(sorted), sign) >= SortKey(h, r, sign)
    THEN <<Head(sorted)>> \o InsertDesc(Tail(sorted), r, h, sign)
    ELSE <<r>> \o sorted

\* a stable sort of the list by descending sign * rerank_score
RECURSIVE SortFrom(_, _, _, _)
SortFrom(list, acc, h, sign) ==
    IF list = <<>> THEN acc
    ELSE SortFrom(Tail(list), InsertDesc(acc, Head(list), h, sign), h, sign)

Reverse(list) == [i \in DOMAIN list |-> list[Len(list) + 1 - i]]

\* Mutation of SortDesc: sorted ascending and then reversed, which turns
\* the order of equal keys around
SortDesc_ReversedAscending(list, h) == Reverse(SortFrom(list, <<>>, h, -1))

\* rerank.py:24: list.sort(key=rerank_score, reverse=True), a stable sort
SortDesc(list, h) == SortFrom(list, <<>>, h, 1)

\* rerank.py:20-21: write each score onto its chunk
RECURSIVE WriteScores(_, _, _, _)
WriteScores(h, list, scores, i) ==
    IF i > Len(scores) THEN h
    ELSE WriteScores([h EXCEPT ![list[i]] = SetField(@, "rerank_score", scores[i])],
                     list, scores, i + 1)

\* the values the relevance model may score a pair with
ScoreValues == {0, 1, 2}

NoSearch == [top_k |-> 0, positions |-> <<>>, scores |-> <<>>]
NoRerank == [list |-> <<>>, scores |-> <<>>, top_k |-> 0, called |-> FALSE]
NoRetriever == [index |-> <<>>, chunks |-> <<>>]

\* No Retriever has been constructed
QueryIdle ==
    /\ heap = <<>>
    /\ retr = NoRetriever
    /\ results = <<>>
    /\ reranked = <<>>
    /\ searched = NoSearch
    /\ rerankIn = NoRerank
    /\ pcQuery = "none"

\* app.py:109-171 on an empty knowledge base: ingest the uploaded files,
\* build the index and load the Retriever from what the build wrote.  Where
\* the build finds no chunk it writes nothing and no Retriever is loaded
\* (retrieve.py:14-15, 53-57).
admin_ingest ==
    /\ pcQuery = "none"
    /\ ~manifest.exists
    /\ pcBuild = "idle"
    /\ \E listing \in Listings \ {<<>>} :
          /\ processed' = ingest(listing, processed).dir
          /\ manifest' = ManifestAfter(ingest(listing, processed), manifest)
          /\ lastRun' = RunOf(listing, AllOk, FALSE, lastRun)
          /\ \E cks \in load_processed_data(processed', manifest') :
                 /\ IF cks = <<>>
                    THEN /\ lastBuild' = "noop"
                         /\ UNCHANGED <<indexFile, storeFile, retr, heap,
                                        pcQuery>>
                    ELSE /\ indexFile' = [exists |-> TRUE,
                                          vecs |-> IndexVectors(cks),
                                          of |-> cks]
                         /\ storeFile' = [exists |-> TRUE, chunks |-> cks]
                         /\ lastBuild' = "wrote"
                         /\ retr' = LoadRetriever(indexFile', storeFile')
                         /\ heap' = Unpickle(cks)
                         /\ pcQuery' = "ready"
    /\ UNCHANGED <<pcBuild, buildChunks, results, reranked, searched,
                   rerankIn, splitVars, callVars, appVars>>

\* retrieve.py:26-47: one call
Retrieve ==
    /\ pcQuery = "ready"
    /\ \E query \in Queries, top_k \in 1..MaxTopK :
          LET q == QueryVector[query]
          IN  \E positions \in Rankings(retr.index, q, top_k) :
                 LET scores == SearchScores(retr.index, q, positions)
                     out == RetrieveLoop(heap, retr.chunks, positions, scores,
                                         1, <<>>)
                 IN  /\ heap' = out.heap
                     /\ results' = out.results
                     /\ searched' = [top_k |-> top_k, positions |-> positions,
                                     scores |-> scores]
    /\ reranked' = <<>>
    /\ rerankIn' = NoRerank
    /\ pcQuery' = "retrieved"
    /\ UNCHANGED <<retr, diskVars, buildVars, splitVars,
                   callVars, appVars>>

\* rerank.py:13-25: one call on the list retrieve returned
Rerank ==
    /\ pcQuery = "retrieved"
    /\ \E top_k \in 0..MaxTopK :
          IF results = <<>>
          THEN /\ reranked' = <<>>
               /\ rerankIn' = [list |-> results, scores |-> <<>>,
                               top_k |-> top_k, called |-> FALSE]
               /\ UNCHANGED <<heap, results>>
          ELSE \E scores \in [DOMAIN results -> ScoreValues] :
                 LET scored == WriteScores(heap, results, scores, 1)
                     sorted == SortDesc(results, scored)
                 IN  /\ heap' = scored
                     /\ results' = sorted
                     /\ reranked' = Slice(sorted, 0, top_k)
                     /\ rerankIn' = [list |-> results, scores |-> scores,
                                     top_k |-> top_k, called |-> TRUE]
    /\ pcQuery' = "reranked"
    /\ UNCHANGED <<retr, searched, diskVars, buildVars, splitVars,
                   callVars, appVars>>

\* The caller of retrieve and rerank returns (app.py:65-91,
\* run_eval.py:53-58): the lists and the dicts only they referenced are gone
Release ==
    /\ pcQuery \in {"retrieved", "reranked"}
    /\ heap' = SubSeq(heap, 1, 2 * Len(retr.chunks))
    /\ results' = <<>>
    /\ reranked' = <<>>
    /\ searched' = NoSearch
    /\ rerankIn' = NoRerank
    /\ pcQuery' = "ready"
    /\ UNCHANGED <<retr, diskVars, buildVars, splitVars,
                   callVars, appVars>>


\* rerank called on its own, on a list of up to MaxTopK chunk dicts
InitRerank ==
    /\ SplitIdle
    /\ InitIndex
    /\ CallIdle
    /\ AppIdle
    /\ retr = NoRetriever
    /\ \E n \in 0..MaxTopK :
          /\ heap = [i \in 1..n |-> [content |-> <<Lowers[i]>>]]
          /\ results = [i \in 1..n |-> i]
    /\ reranked = <<>>
    /\ searched = NoSearch
    /\ rerankIn = NoRerank
    /\ pcQuery = "retrieved"

NextRerank == Rerank

SpecRerank == InitRerank /\ [][NextRerank]_vars

Init == InitIndex /\ SplitIdle /\ QueryIdle /\ CallIdle /\ AppIdle

NextQuery == admin_ingest \/ Retrieve \/ Rerank \/ Release

\* One knowledge base, filled once and then queried
SpecQuery == Init /\ [][NextQuery]_vars

Next == NextIndex

Spec == Init /\ [][Next]_vars

\* ---- the call as a process, one loop iteration per step

Alphabet == {"a", SP, NL}

RECURSIVE StringsUpTo(_)
StringsUpTo(n) ==
    IF n = 0 THEN {<<>>}
    ELSE LET shorter == StringsUpTo(n - 1)
         IN  shorter \cup {Append(s, c) : s \in {x \in shorter : Len(x) = n - 1},
                                          c \in Alphabet}

\* chunk.py:14-19: entry; empty text returns [] at once
InitSplit ==
    /\ InitIndex
    /\ QueryIdle
    /\ CallIdle
    /\ AppIdle
    /\ text \in StringsUpTo(MaxTextLen)
    /\ chunk_size \in 1..MaxChunkSize
    /\ chunk_overlap \in 0..(chunk_size - 1)
    /\ start = 0
    /\ chunks = <<>>
    /\ cuts = <<>>
    /\ pcSplit = IF text = <<>> THEN "done" ELSE "loop"

\* chunk.py:21-56: the while test and one pass through the body
SplitLoop ==
    /\ pcSplit = "loop"
    /\ IF start < Len(text)
       THEN LET it == SplitIter(text, chunk_size, chunk_overlap, start)
            IN  /\ chunks' = Append(chunks, it.chunk)
                /\ cuts' = Append(cuts, [at |-> start, kind |-> it.kind])
                /\ start' = it.next
                /\ pcSplit' = IF it.stop THEN "done" ELSE "loop"
       ELSE /\ pcSplit' = "done"
            /\ UNCHANGED <<chunks, cuts, start>>
    /\ UNCHANGED <<text, chunk_size, chunk_overlap>>
    /\ UNCHANGED <<diskVars, buildVars, queryVars, callVars, appVars>>

NextSplit == SplitLoop

SpecSplit == InitSplit /\ [][NextSplit]_vars

\* The loop runs to its end once entered: the call is synchronous
SpecSplitFair == SpecSplit /\ WF_vars(SplitLoop)

--------------------------------------------------------------------------
(* Properties of split_text *)

ChunkEnd(i) == cuts[i].at + Len(chunks[i])

\* C5: with 0 <= chunk_overlap < chunk_size every pass through the loop
\* body appends a chunk and then either stops (the final chunk) or leaves
\* start strictly larger than it was, on a boundary cut and on a forced
\* cut alike; hence the call returns.
C5_StrictAdvance ==
    /\ [][pcSplit = "loop" =>
            /\ Len(chunks') = Len(chunks) + 1
            /\ \/ pcSplit' = "done" /\ cuts'[Len(cuts')].kind = "final"
               \/ pcSplit' = "loop" /\ start' > start /\ start' < Len(text)]_vars
    /\ <>(pcSplit = "done")

\* a finished call that cut once at a delimiter and once by force, the
\* forced window holding no newline and no space at all
C5_Witness ==
    /\ pcSplit = "done"
    /\ \E i \in DOMAIN cuts : cuts[i].kind = "boundary"
    /\ \E i \in DOMAIN cuts :
          /\ cuts[i].kind = "forced"
          /\ \A j \in DOMAIN chunks[i] : chunks[i][j] = "a"

\* the chunks with the duplicated overlap after each forced cut removed,
\* concatenated
RECURSIVE Rebuild(_)
Rebuild(n) ==
    IF n = 0 THEN <<>>
    ELSE IF n = 1 THEN chunks[1]
    ELSE LET dup == IF cuts[n - 1].kind = "forced" THEN chunk_overlap ELSE 0
         IN  Rebuild(n - 1) \o Slice(chunks[n], dup, Len(chunks[n]))

\* C6: for non-empty text the returned chunks are substrings of text at
\* increasing starts, the first at 0, the last ending at len(text), each
\* next one starting at the previous end (boundary cut) or chunk_overlap
\* before it (forced cut); without the duplicated overlap they concatenate
\* to text.
C6_CoverAndReconstruct ==
    (pcSplit = "done" /\ text # <<>>) =>
        /\ Len(chunks) >= 1
        /\ Len(cuts) = Len(chunks)
        /\ cuts[1].at = 0
        /\ ChunkEnd(Len(chunks)) = Len(text)
        /\ \A i \in DOMAIN chunks :
              chunks[i] = Slice(text, cuts[i].at, ChunkEnd(i))
        /\ \A i \in 1..(Len(chunks) - 1) :
              /\ cuts[i + 1].at > cuts[i].at
              /\ cuts[i].kind = "boundary" => cuts[i + 1].at = ChunkEnd(i)
              /\ cuts[i].kind = "forced" =>
                    cuts[i + 1].at = ChunkEnd(i) - chunk_overlap
              /\ cuts[i].kind # "final"
        /\ Rebuild(Len(chunks)) = text

\* a finished call of three or more chunks with a real overlap, cut both ways
C6_Witness ==
    /\ pcSplit = "done"
    /\ chunk_overlap > 0
    /\ Len(chunks) >= 3
    /\ \E i \in DOMAIN cuts : cuts[i].kind = "boundary"
    /\ \E i \in DOMAIN cuts : cuts[i].kind = "forced"
    /\ Rebuild(Len(chunks)) = text

\* C7: empty text gives no chunk, text of at most chunk_size characters
\* gives the text as its one chunk, longer text gives more than one chunk;
\* every chunk is non-empty and at most chunk_size long.
C7_ChunkCountAndSize ==
    /\ \A i \in DOMAIN chunks :
          Len(chunks[i]) >= 1 /\ Len(chunks[i]) <= chunk_size
    /\ pcSplit = "done" =>
          /\ text = <<>> => chunks = <<>>
          /\ (text # <<>> /\ Len(text) <= chunk_size) => chunks = <<text>>
          /\ Len(text) > chunk_size => Len(chunks) > 1
          /\ chunks = split_text(text, chunk_size, chunk_overlap)

\* a finished call on text longer than chunk_size whose chunks include a
\* full-size one and a delimiter-ended shorter one
C7_Witness ==
    /\ pcSplit = "done"
    /\ Len(text) > chunk_size
    /\ Len(chunks) > 1
    /\ \E i \in DOMAIN chunks : Len(chunks[i]) = chunk_size
    /\ \E i \in DOMAIN chunks :
          Len(chunks[i]) < chunk_size /\ cuts[i].kind = "boundary"

--------------------------------------------------------------------------
(* Properties of ingest and build_index *)

RecordChunksIn(dir, list) ==
    \A p \in DOMAIN dir :
        \A i \in DOMAIN dir[p].chunks :
            \E j \in DOMAIN list : list[j] = dir[p].chunks[i]

\* C1: a build_index run that finds chunks writes a chunk list that holds
\* the chunks of every document record present in the processed directory,
\* those of earlier ingest runs included.
C1_BuildHoldsEveryRecord ==
    [][(pcBuild = "indexWritten" /\ pcBuild' = "idle" /\ lastBuild' = "wrote")
          => RecordChunksIn(processed, storeFile'.chunks)]_vars

\* C2: whenever both files are at the paths readers use, the vectors of
\* vector.index were computed from the chunk list that doc_store holds:
\* the two come from one build, also while a build runs or after it failed.
C2_FilesFromOneBuild ==
    (indexFile.exists /\ storeFile.exists) => indexFile.of = storeFile.chunks

\* C3: after a build_index run that wrote its output, the index holds one
\* vector per entry of the chunk list, and the vector at position i is the
\* (normalized) embedding of the content of entry i.
C3_IndexAlignedWithStore ==
    (pcBuild = "idle" /\ lastBuild = "wrote") =>
        /\ indexFile.exists /\ storeFile.exists
        /\ Len(indexFile.vecs) = Len(storeFile.chunks)
        /\ \A i \in DOMAIN storeFile.chunks :
              indexFile.vecs[i] = NormalizeOne(EmbedOne(storeFile.chunks[i].content))

\* a finished build of three or more chunks, among them a section chunk
\* whose header changes its embedding
C3_Witness ==
    /\ pcBuild = "idle" /\ lastBuild = "wrote"
    /\ Len(storeFile.chunks) >= 3
    /\ \E i \in DOMAIN storeFile.chunks :
          /\ indexFile.vecs[i] = NormalizeOne(EmbedOne(storeFile.chunks[i].content))
          /\ indexFile.vecs[i] #
                NormalizeOne(EmbedOne(storeFile.chunks[i].metadata.original_text))

\* C4: no two chunks of the corpus build_index loaded carry the same
\* chunk_id.
C4_ChunkIdsUnique ==
    \A i, j \in DOMAIN buildChunks :
        i # j => buildChunks[i].metadata.chunk_id # buildChunks[j].metadata.chunk_id

--------------------------------------------------------------------------
(* Properties of retrieve and rerank *)

\* the entry of the search's output that holds its j-th real position
NthValid(positions, j) ==
    CHOOSE i \in DOMAIN positions :
        /\ positions[i] # -1
        /\ Cardinality({x \in 1..i : positions[x] # -1}) = j

\* C8: retrieve returns min(top_k, n) results, never more than top_k; the
\* -1 positions of the search give no result; result j is the stored chunk
\* at the j-th position the search returned, with that position's score.
C8_RetrieveJoinsPositions ==
    pcQuery = "retrieved" =>
        LET n == Len(retr.index)
            nvalid == Cardinality({i \in DOMAIN searched.positions :
                                      searched.positions[i] # -1})
        IN  /\ n >= 1 /\ searched.top_k >= 1
            /\ Len(results) <= searched.top_k
            /\ Len(results) = Min(searched.top_k, n)
            /\ Len(results) = nvalid
            /\ \A j \in DOMAIN results :
                  LET e == NthValid(searched.positions, j)
                      position == searched.positions[e]
                      stored == heap[retr.chunks[position + 1]]
                      got == heap[results[j]]
                  IN  /\ position \in 0..(Len(retr.chunks) - 1)
                      /\ DOMAIN got = {"content", "metadata", "score"}
                      /\ got.content = stored.content
                      /\ got.metadata = stored.metadata
                      /\ got.score = searched.scores[e]
                      /\ got.content = storeFile.chunks[position + 1].content
                      /\ heap[got.metadata] = storeFile.chunks[position + 1].metadata

\* a single-chunk corpus searched for more than one neighbour
C8_Witness ==
    /\ pcQuery = "retrieved"
    /\ Len(retr.index) = 1
    /\ searched.top_k > 1
    /\ \E i \in DOMAIN searched.positions : searched.positions[i] = -1
    /\ Len(results) = 1

\* C9: the Retriever's chunk list is never changed by retrieve or rerank:
\* it holds the same dicts in the same order, each equal to the entry it
\* was loaded from, with no score and no rerank_score; no returned dict is
\* one of them.
C9_StoredChunksUntouched ==
    pcQuery # "none" =>
        LET n == Len(storeFile.chunks)
        IN  /\ retr.chunks = [i \in 1..n |-> i]
            /\ \A i \in 1..n :
                  /\ DOMAIN heap[i] = {"content", "metadata"}
                  /\ ChunkValue(heap, i) = storeFile.chunks[i]
            /\ \A j \in DOMAIN results : results[j] > 2 * n
            /\ \A j \in DOMAIN reranked : reranked[j] > 2 * n

\* a rerank that scored and reordered two or more retrieved dicts
C9_Witness ==
    /\ pcQuery = "reranked"
    /\ Len(results) >= 2
    /\ results # rerankIn.list
    /\ \A j \in DOMAIN results : "rerank_score" \in DOMAIN heap[results[j]]
    /\ \A i \in DOMAIN retr.chunks : "rerank_score" \notin DOMAIN heap[retr.chunks[i]]

PosIn(list, r) == CHOOSE i \in DOMAIN list : list[i] = r

\* C10: rerank with top_k >= 0 returns the first min(top_k, len(chunks))
\* of the input chunks sorted by descending rerank_score, chunks of equal
\* score in their input order; for the empty list it returns the empty
\* list and does not call the relevance model.
C10_RerankSortsAndTruncates ==
    pcQuery = "reranked" =>
        LET in == rerankIn.list
            score(r) == heap[r].rerank_score
        IN  /\ in = <<>> => (reranked = <<>> /\ ~rerankIn.called)
            /\ in # <<>> =>
                  /\ rerankIn.called
                  /\ Len(reranked) = Min(rerankIn.top_k, Len(in))
                  /\ Len(results) = Len(in)
                  /\ \A i \in DOMAIN in : \E j \in DOMAIN results : results[j] = in[i]
                  /\ \A i \in DOMAIN in : score(in[i]) = rerankIn.scores[i]
                  /\ \A a, b \in DOMAIN results :
                        a < b =>
                            /\ score(results[a]) >= score(results[b])
                            /\ score(results[a]) = score(results[b]) =>
                                  PosIn(in, results[a]) < PosIn(in, results[b])
                  /\ \A i \in DOMAIN reranked : reranked[i] = results[i]

\* a rerank of three or more chunks, two of them scored alike, that
\* changed the order and cut the list
C10_Witness ==
    /\ pcQuery = "reranked"
    /\ Len(rerankIn.list) >= 3
    /\ rerankIn.top_k >= 1 /\ rerankIn.top_k < Len(rerankIn.list)
    /\ results # rerankIn.list
    /\ \E i, j \in DOMAIN rerankIn.scores :
          i # j /\ rerankIn.scores[i] = rerankIn.scores[j]
    /\ Len(reranked) = rerankIn.top_k

--------------------------------------------------------------------------
(* The retrieval metrics, eval/metrics.py:3-20 *)

MaxIds == 2

\* a float that is a quotient of two small integers, kept exact
Quotient(n, d) == [num |-> n, den |-> d]
Zero == Quotient(0, 1)
SameValue(x, y) == x.num * y.den = y.num * x.den
AtMost(x, y) == x.num * y.den <= y.num * x.den

\* gid in rid: gid occurs in rid as a contiguous run of characters
Contains(rid, gid) ==
    \E i \in 0..(Len(rid) - Len(gid)) : Slice(rid, i, i + Len(gid)) = gid

\* Mutation of AnyGoldIn: every gold id must occur in the retrieved id
AnyGoldIn_All(rid, gold_ids) ==
    \A j \in DOMAIN gold_ids : Contains(rid, gold_ids[j])

\* metrics.py:7, 17: any(gid in rid for gid in gold_ids)
AnyGoldIn(rid, gold_ids) ==
    \E j \in DOMAIN gold_ids : Contains(rid, gold_ids[j])

\* metrics.py:7: sum(1 for rid in retrieved_ids if any(...)), from entry i
RECURSIVE Hits(_, _, _)
Hits(retrieved_ids, gold_ids, i) ==
    IF i > Len(retrieved_ids) THEN 0
    ELSE (IF AnyGoldIn(retrieved_ids[i], gold_ids) THEN 1 ELSE 0)
         + Hits(retrieved_ids, gold_ids, i + 1)

\* metrics.py:3-10
calculate_recall(retrieved_ids, gold_ids) ==
    IF gold_ids = <<>> THEN Zero
    ELSE Quotient(Hits(retrieved_ids, gold_ids, 1), Len(gold_ids))

\* metrics.py:16-20: the loop over enumerate(retrieved_ids), from index i
RECURSIVE MrrFrom(_, _, _)
MrrFrom(retrieved_ids, gold_ids, i) ==
    IF i >= Len(retrieved_ids) THEN Zero
    ELSE IF AnyGoldIn(retrieved_ids[i + 1], gold_ids)
    THEN Quotient(1, i + 1)
    ELSE MrrFrom(retrieved_ids, gold_ids, i + 1)

\* metrics.py:12-20
calculate_mrr(retrieved_ids, gold_ids) ==
    IF gold_ids = <<>> THEN Zero ELSE MrrFrom(retrieved_ids, gold_ids, 0)

\* The ids the lists are made of: document ids and chunk ids of theirs
Ids ==
    { <<"d", "1">>, <<"d", "2">>, <<"d", "1", "_", "a">>,
      <<"d", "1", "_", "b">>, <<"d", "2", "_", "a">> }

IdLists == UNION { [1..n -> Ids] : n \in 0..MaxIds }

\* run_eval.py:60-67: the two lists a question gives
InitMetrics ==
    /\ InitIndex
    /\ SplitIdle
    /\ QueryIdle
    /\ AppIdle
    /\ \E r \in IdLists, g \in IdLists :
          call = [fn |-> "metrics", retrieved_ids |-> r, gold_ids |-> g]
    /\ ret = NotReturned
    /\ openai_client = "None"
    /\ local_pipeline = "None"

Recall ==
    /\ call.fn = "metrics"
    /\ ~ret.returned
    /\ ret' = [returned |-> TRUE, fn |-> "calculate_recall",
               value |-> calculate_recall(call.retrieved_ids, call.gold_ids)]
    /\ UNCHANGED <<call, openai_client, local_pipeline, splitVars, diskVars,
                   buildVars, queryVars, appVars>>

Mrr ==
    /\ call.fn = "metrics"
    /\ ~ret.returned
    /\ ret' = [returned |-> TRUE, fn |-> "calculate_mrr",
               value |-> calculate_mrr(call.retrieved_ids, call.gold_ids)]
    /\ UNCHANGED <<call, openai_client, local_pipeline, splitVars, diskVars,
                   buildVars, queryVars, appVars>>

NextMetrics == Recall \/ Mrr

SpecMetrics == InitMetrics /\ [][NextMetrics]_vars

\* the gold ids (by position) that occur in some retrieved id
MatchedGold(retrieved_ids, gold_ids) ==
    {j \in DOMAIN gold_ids :
        \E i \in DOMAIN retrieved_ids : Contains(retrieved_ids[i], gold_ids[j])}

\* C11: calculate_recall returns the fraction of the gold ids that occur in
\* at least one retrieved id, a value from 0 to 1, and 0 for no gold ids.
C11_RecallIsFractionOfGold ==
    (ret.returned /\ ret.fn = "calculate_recall") =>
        LET r == call.retrieved_ids
            g == call.gold_ids
        IN  /\ AtMost(Zero, ret.value) /\ AtMost(ret.value, Quotient(1, 1))
            /\ g = <<>> => SameValue(ret.value, Zero)
            /\ g # <<>> =>
                  SameValue(ret.value,
                            Quotient(Cardinality(MatchedGold(r, g)), Len(g)))

\* the retrieved ids (by position) that contain some gold id
Matching(retrieved_ids, gold_ids) ==
    {i \in DOMAIN retrieved_ids :
        \E j \in DOMAIN gold_ids : Contains(retrieved_ids[i], gold_ids[j])}

\* C12: calculate_mrr returns 1/r for the 1-based position r of the first
\* retrieved id that contains some gold id, and 0 when there is none or
\* gold_ids is empty.
C12_MrrIsReciprocalOfFirstMatch ==
    (ret.returned /\ ret.fn = "calculate_mrr") =>
        LET r == call.retrieved_ids
            g == call.gold_ids
            m == Matching(r, g)
        IN  IF g = <<>> \/ m = {}
            THEN ret.value = Zero
            ELSE ret.value =
                    Quotient(1, CHOOSE i \in m : \A k \in m : i <= k)

\* the first match is at rank 2, and not every gold id is in it
C12_Witness ==
    /\ ret.returned /\ ret.fn = "calculate_mrr"
    /\ ret.value = Quotient(1, 2)
    /\ Len(call.gold_ids) = 2
    /\ ~Contains(call.retrieved_ids[2], call.gold_ids[1])
    /\ Matching(call.retrieved_ids, call.gold_ids) = {2}

--------------------------------------------------------------------------
(* One ingest run in which files may fail, ingest.py:68-107 *)

\* the set of the files in a sequence of files
FilesOf(files) == {files[i] : i \in DOMAIN files}

\* ingest.py:68-107, on an empty processed directory
IngestRun ==
    /\ ~lastRun.ran
    /\ pcBuild = "idle"
    /\ \E listing \in AllListings :
          \E outcome \in [FilesOf(Discovered[listing]) -> Outcomes] :
             /\ processed' = ingest_with(listing, outcome, processed).dir
             /\ manifest' =
                   ManifestAfter(ingest_with(listing, outcome, processed),
                                 manifest)
             /\ lastRun' =
                   RunOf(listing, outcome,
                         ingest_with(listing, outcome, processed).escaped,
                         lastRun)
    /\ UNCHANGED <<indexFile, storeFile, buildVars, splitVars, queryVars,
                   callVars, appVars>>

NextIngest == IngestRun

SpecIngest == Init /\ [][NextIngest]_vars

\* the files of a sequence that processed successfully, in order
RECURSIVE Succeeded(_, _)
Succeeded(files, outcome) ==
    IF files = <<>> THEN <<>>
    ELSE (IF outcome[Head(files)] = "ok" THEN <<Head(files)>> ELSE <<>>)
         \o Succeeded(Tail(files), outcome)

\* the record and the manifest entry the source prescribes for a file
RecordFor(f) ==
    [metadata |-> [source |-> f.name, doc_id |-> DocIdOf(f.name),
                   created_at |-> f.ctime],
     chunks |-> ProcessedFile[f].chunks]

EntryFor(f) ==
    [doc_id |-> DocIdOf(f.name), path |-> RecordPath(DocIdOf(f.name)),
     chunk_count |-> Len(ProcessedFile[f].chunks)]

\* C13: an ingest run in which files fail does not raise and runs to its
\* end: manifest.json is written, its entries are those of the discovered
\* files that processed successfully, in order, so that no failing file has
\* one, and the record of each such file is at its path, unless a later
\* file of the run wrote the same path.
C13_FailuresAreIsolated ==
    lastRun.ran =>
        LET files == Discovered[lastRun.files]
            good == Succeeded(files, lastRun.outcome)
        IN  /\ ~lastRun.escaped
            /\ manifest.exists
            /\ Len(manifest.entries) = Len(good)
            /\ \A k \in DOMAIN good : manifest.entries[k] = EntryFor(good[k])
            /\ \A i \in DOMAIN files :
                  lastRun.outcome[files[i]] = "ok" =>
                      /\ EntryFor(files[i]).path \in DOMAIN processed
                      /\ \/ processed[EntryFor(files[i]).path] = RecordFor(files[i])
                         \/ \E j \in (i + 1)..Len(files) :
                               /\ EntryFor(files[j]).path = EntryFor(files[i]).path
                               /\ lastRun.outcome[files[j]] \in {"ok", "dump"}

\* a run of two files with different records: the first fails in its
\* write, the second is recorded
C13_Witness ==
    /\ lastRun.ran
    /\ Len(Discovered[lastRun.files]) = 2
    /\ lastRun.outcome[Discovered[lastRun.files][1]] \in {"open", "dump"}
    /\ lastRun.outcome[Discovered[lastRun.files][2]] = "ok"
    /\ EntryFor(Discovered[lastRun.files][1]).path
          # EntryFor(Discovered[lastRun.files][2]).path
    /\ Len(manifest.entries) = 1
    /\ processed[manifest.entries[1].path] = RecordFor(Discovered[lastRun.files][2])

\* the extensions ingest is to discover
SupportedExts == {X_pdf, X_html, X_htm, X_txt, X_md}

\* C16: ingest hands to process_file exactly the files of input_dir whose
\* extension is .pdf, .html, .htm, .txt or .md; each of them that processes
\* successfully has a manifest entry and a record, and no file of another
\* extension has a record.
C16_DiscoversByExtension ==
    lastRun.ran =>
        LET listed == FilesOf(lastRun.files)
            found == FilesOf(Discovered[lastRun.files])
        IN  /\ found = {f \in listed : SplitExt(f.name) \in SupportedExts}
            /\ \A f \in listed :
                  IF SplitExt(f.name) \in SupportedExts
                  THEN (f \in found /\ lastRun.outcome[f] = "ok") =>
                          /\ \E k \in DOMAIN manifest.entries :
                                manifest.entries[k] = EntryFor(f)
                          /\ EntryFor(f).path \in DOMAIN processed
                  ELSE EntryFor(f).path \notin DOMAIN processed

--------------------------------------------------------------------------
(* One call of create_chunks, chunk.py:96-130 *)

\* the characters extract_sections and split_text distinguish
MarkdownAlphabet == {"a", "#", SP, NL}

RECURSIVE StringsOver(_, _)
StringsOver(alphabet, n) ==
    IF n = 0 THEN {<<>>}
    ELSE LET shorter == StringsOver(alphabet, n - 1)
         IN  shorter \cup {Append(t, c) : t \in {x \in shorter : Len(x) = n - 1},
                                          c \in alphabet}

\* a document that names its first section Introduction itself
T_introHeader ==
    <<"#", " ">> \o S_Introduction \o <<NL, "b", NL, "#", " ", "T", NL, "c">>

ChunkTexts ==
    StringsOver(MarkdownAlphabet, MaxTextLen)
        \cup {T_twoSections, T_sameTitle, T_longTitles, T_introHeader}

\* the sizes create_chunks is called with: its defaults, and small ones
ChunkParams ==
    { [chunk_size |-> DefaultChunkSize, chunk_overlap |-> DefaultChunkOverlap],
      [chunk_size |-> MaxChunkSize, chunk_overlap |-> 1] }

\* ingest.py:55-61: the metadata process_file passes
CallMetadata == [source |-> N_c, doc_id |-> DocIdOf(N_c), created_at |-> <<"3">>]

InitChunks ==
    /\ InitIndex
    /\ SplitIdle
    /\ QueryIdle
    /\ AppIdle
    /\ \E t \in ChunkTexts, ps \in ChunkParams :
          call = [fn |-> "create_chunks", text |-> t, metadata |-> CallMetadata,
                  chunk_size |-> ps.chunk_size,
                  chunk_overlap |-> ps.chunk_overlap]
    /\ ret = NotReturned
    /\ openai_client = "None"
    /\ local_pipeline = "None"

CreateChunks ==
    /\ call.fn = "create_chunks"
    /\ ~ret.returned
    /\ ret' = [returned |-> TRUE, fn |-> "create_chunks",
               value |-> create_chunks(call.text, call.metadata,
                                       call.chunk_size, call.chunk_overlap)]
    /\ UNCHANGED <<call, openai_client, local_pipeline, splitVars, diskVars,
                   buildVars, queryVars, appVars>>

NextChunks == CreateChunks

SpecChunks == InitChunks /\ [][NextChunks]_vars

\* C17: create_chunks returns no chunk for the empty text and for a text
\* whose sections all have empty bodies; a chunk of a section other than
\* Introduction has content "Section: <title>\n" followed by its
\* original_text, a chunk of Introduction has its original_text as content.
C17_SectionPrefix ==
    (ret.returned /\ ret.fn = "create_chunks") =>
        LET sections == extract_sections(call.text)
        IN  /\ call.text = <<>> => ret.value = <<>>
            /\ (\A k \in DOMAIN sections : sections[k].content = <<>>)
                  => ret.value = <<>>
            /\ \A i \in DOMAIN ret.value :
                  LET c == ret.value[i]
                  IN  IF c.metadata.section_title # S_Introduction
                      THEN c.content =
                              S_SectionPrefix \o c.metadata.section_title
                                  \o <<NL>> \o c.metadata.original_text
                      ELSE c.content = c.metadata.original_text

\* a text with an introduction and a titled section, both with a body
C17_Witness ==
    /\ ret.returned /\ ret.fn = "create_chunks"
    /\ \E i, j \in DOMAIN ret.value :
          /\ ret.value[i].metadata.section_title = S_Introduction
          /\ ret.value[i].content # <<>>
          /\ ret.value[j].metadata.section_title # S_Introduction
          /\ Len(ret.value[j].content) > Len(ret.value[j].metadata.original_text)

--------------------------------------------------------------------------
(* GeneratorService.generate, generate.py:17-145 *)

\* generate.py:21
OpenAIModel == <<"g", "p", "t", "-", "5", "-", "n", "a", "n", "o">>

\* generate.py:75: "gpt-5-" in self.openai_model or "nano" in self.openai_model
UsesResponsesApi ==
    \/ Contains(OpenAIModel, <<"g", "p", "t", "-", "5", "-">>)
    \/ Contains(OpenAIModel, <<"n", "a", "n", "o">>)

\* generate.py:66
ErrNoKey ==
    "Error: OpenAI backend selected but OPENAI_API_KEY not found. Please switch to Local or set key."

\* generate.py:86: f"OpenAI Error: {str(e)}"
ErrOpenAI == "OpenAI Error: e"

\* the error answers generate has
ErrorMessages == {ErrNoKey, ErrOpenAI}

\* generate.py:47-53: one entry per chunk, its chunk_id and its content
RECURSIVE FormatContext(_)
FormatContext(cks) ==
    IF cks = <<>> THEN <<>>
    ELSE <<[source_id |-> Head(cks).metadata.chunk_id,
            text |-> Head(cks).content]>> \o FormatContext(Tail(cks))

\* the backends the callers pass (app.py:224-228, run_eval.py:61)
Backends == {"openai", "local", "gemini"}

\* What the services outside the program do during one call:
\*   create: the OpenAI request returns text or raises;
\*   load:   transformers.pipeline(...) returns or raises;
\*   spaces: import spaces and spaces.GPU(run_pipeline) work, or raise
\*           ImportError, or raise another Exception;
\*   run:    the pipeline returns the conversation ending in the assistant's
\*           message, a list ending in another message, a string, or raises.
Upstreams ==
    [create : {"text", "raises"},
     load : {"ok", "raises"},
     spaces : {"ok", "ImportError", "Exception"},
     run : {"chat", "list", "string", "raises"}]

Returned(v) == [returned |-> TRUE, fn |-> "generate", raised |-> FALSE, value |-> v]
Raised(e) == [returned |-> TRUE, fn |-> "generate", raised |-> TRUE, value |-> e]

\* generate.py:95-145: the local branch; what it returns or raises and
\* what self.local_pipeline is afterwards
LocalGenerate(pipeline, up) ==
    IF pipeline = "None" /\ up.load = "raises"
    THEN [ret |-> Raised("pipeline load error"), pipeline |-> "None"]
    ELSE IF up.run = "raises"
    THEN [ret |-> Raised("pipeline run error"), pipeline |-> "pipeline"]
    ELSE IF up.run = "chat"
    THEN [ret |-> Returned("content"), pipeline |-> "pipeline"]
    ELSE [ret |-> Returned("str(result)"), pipeline |-> "pipeline"]

\* generate.py:56-145
generate(client, pipeline, backend, up) ==
    LET use_openai == backend = "openai" /\ client # "None"
    IN  IF backend = "openai" /\ client = "None"
        THEN [ret |-> Returned(ErrNoKey), pipeline |-> pipeline]
        ELSE IF use_openai
        THEN IF UsesResponsesApi
             THEN IF up.create = "text"
                  THEN [ret |-> Returned("output_text"), pipeline |-> pipeline]
                  ELSE [ret |-> Returned(ErrOpenAI), pipeline |-> pipeline]
             ELSE IF up.create = "text"
                  THEN [ret |-> Returned("message.content"), pipeline |-> pipeline]
                  ELSE [ret |-> Raised("openai error"), pipeline |-> pipeline]
        ELSE LocalGenerate(pipeline, up)

\* the reranked chunks a caller passes
ContextLists ==
    { <<>>,
      create_chunks(T_twoSections, CallMetadata, DefaultChunkSize,
                    DefaultChunkOverlap) }

\* generate.py:18-31: a GeneratorService, with or without OPENAI_API_KEY
InitGenerate ==
    /\ InitIndex
    /\ SplitIdle
    /\ QueryIdle
    /\ AppIdle
    /\ call = NoCall
    /\ ret = NotReturned
    /\ openai_client \in {"None", "client"}
    /\ local_pipeline = "None"

Generate ==
    /\ call.fn \in {"none", "generate"}
    /\ \E query \in Queries, cks \in ContextLists, backend \in Backends,
          up \in Upstreams :
          /\ call' = [fn |-> "generate", query |-> query,
                      context |-> FormatContext(cks), backend |-> backend,
                      upstream |-> up]
          /\ ret' = generate(openai_client, local_pipeline, backend, up).ret
          /\ local_pipeline' =
                generate(openai_client, local_pipeline, backend, up).pipeline
    /\ UNCHANGED <<openai_client, splitVars, diskVars, buildVars, queryVars,
                   appVars>>

NextGenerate == Generate

SpecGenerate == InitGenerate /\ [][NextGenerate]_vars

\* the backend the call selected is unconfigured, or its call failed
BackendFailed ==
    \/ call.backend = "openai" /\ openai_client = "None"
    \/ call.backend = "openai" /\ openai_client # "None"
          /\ call.upstream.create = "raises"
    \/ call.backend # "openai"
          /\ \/ call.upstream.run = "raises"
             \/ call.upstream.load = "raises" /\ local_pipeline = "None"

\* C18: generate never raises: it returns a string whatever the backend
\* and whatever the services it calls do, an error message when the
\* backend is unconfigured or its call failed.
C18_GenerateNeverRaises ==
    (ret.returned /\ ret.fn = "generate") =>
        /\ ~ret.raised
        /\ BackendFailed =>
              ret.value \in ErrorMessages

--------------------------------------------------------------------------
(* Re-ingestion, empty builds and the manifest, in the index lifecycle *)

\* the chunks of a list that belong to document doc_id, in order
RECURSIVE ChunksOfDoc(_, _)
ChunksOfDoc(cks, doc_id) ==
    IF cks = <<>> THEN <<>>
    ELSE (IF Head(cks).metadata.doc_id = doc_id THEN <<Head(cks)>> ELSE <<>>)
         \o ChunksOfDoc(Tail(cks), doc_id)

\* C14: a build that follows a run which ingested again a filename an
\* earlier run had ingested holds that document's chunks once: those of
\* the file as the last run read it, and no other chunk of that doc_id.
C14_ReingestOverwrites ==
    pcBuild = "built" =>
        \A i \in DOMAIN lastRun.files :
            lastRun.files[i].name \in lastRun.before =>
                ChunksOfDoc(buildChunks, DocIdOf(lastRun.files[i].name))
                    = ProcessedFile[lastRun.files[i]].chunks

\* the processed directory yields no chunk
ZeroChunks == \A cks \in load_processed_data(processed, manifest) : cks = <<>>

\* C15: while the processed directory yields no chunk, no step of
\* build_index goes on to build or changes vector.index or the chunk-list
\* file, and no index or chunk list on disk is ever empty.
C15_NoEmptyIndex ==
    /\ [][(pcBuild = "idle" /\ ZeroChunks) =>
              /\ pcBuild' = "idle"
              /\ indexFile' = indexFile
              /\ storeFile' = storeFile]_vars
    /\ [](indexFile.exists => Len(indexFile.vecs) > 0)
    /\ [](storeFile.exists => Len(storeFile.chunks) > 0)

\* a build that found no chunk has returned, the index of an earlier
\* build still on disk
C15_Witness ==
    /\ lastBuild = "noop"
    /\ pcBuild = "idle"
    /\ ZeroChunks
    /\ manifest.exists
    /\ indexFile.exists /\ storeFile.exists

\* C19: the manifest of a run has one entry per doc_id and per path, and
\* the chunk_count of each entry is the number of chunks of the record at
\* its path.
C19_ManifestOneEntryPerDoc ==
    manifest.exists =>
        /\ \A i, j \in DOMAIN manifest.entries :
              i # j => /\ manifest.entries[i].doc_id # manifest.entries[j].doc_id
                       /\ manifest.entries[i].path # manifest.entries[j].path
        /\ \A i \in DOMAIN manifest.entries :
              manifest.entries[i].chunk_count
                  = Len(processed[manifest.entries[i].path].chunks)

--------------------------------------------------------------------------
(* The web app: its retriever handle, app.py:26-171 and retrieve.py:49-59 *)

\* retrieve.py:10-21 and 53-57: the Retriever read from the two files, or
\* None when one of them is missing.  stale (history) is set once a later
\* admin_ingest has completed.
LoadFrom(idx, store) ==
    IF idx.exists /\ store.exists
    THEN [loaded |-> TRUE, index |-> idx.vecs, chunks |-> store.chunks,
          stale |-> FALSE]
    ELSE NoHandle

\* retrieve.py:49-59: the shared Retriever, loaded when there is none
get_retriever(shared, idx, store) ==
    IF ~shared.loaded THEN LoadFrom(idx, store) ELSE shared

\* app.py:31-39: the two handles after init_services
init_services(handle, shared, index_dir, idx, store) ==
    IF index_dir
    THEN [retriever |-> get_retriever(shared, idx, store),
          shared |-> get_retriever(shared, idx, store)]
    ELSE [retriever |-> handle, shared |-> shared]

\* Mutation of ResetShared: the shared Retriever is kept
ResetShared_Keep(shared) == shared

\* app.py:103-104, 160-161: services.rag.retrieve._shared_retriever = None
ResetShared(shared) == NoHandle

\* history: a Retriever loaded before the admin_ingest that now completes
Aged(h) == IF h.loaded THEN [h EXCEPT !.stale = TRUE] ELSE h

\* the uploads of one admin_ingest call: one file
AppUploads == {<<f>> : f \in InputFiles \cup {F_empty}}

\* how build_index ends in an admin_ingest: it returns, the embedding call
\* raises, or the write of the chunk list raises
BuildOutcomes == {"ok", "embed raises", "dump raises"}

\* app.py:147-171: reload after ingest and build_index returned
Reloaded(idx, store) ==
    init_services(Aged(retriever), ResetShared(Aged(shared_retriever)), TRUE,
                  idx, store)

\* app.py:109-171 with one uploaded file
AppIngest ==
    /\ pcBuild = "idle"
    /\ \E up \in AppUploads, build \in BuildOutcomes :
          /\ processed' = ingest(up, processed).dir
          /\ manifest' = ManifestAfter(ingest(up, processed), manifest)
          /\ lastRun' = RunOf(up, AllOk, FALSE, lastRun)
          /\ \E cks \in load_processed_data(processed', manifest') :
                IF NoChunks(cks)
                THEN /\ build = "ok"
                     /\ UNCHANGED <<indexFile, storeFile>>
                     /\ retriever' = Reloaded(indexFile, storeFile).retriever
                     /\ shared_retriever' = Reloaded(indexFile, storeFile).shared
                     /\ app' = [index_dir |-> TRUE, cleared |-> app.cleared,
                                last |-> "ingest ok",
                                replaced |-> retriever.loaded]
                ELSE IF build = "ok"
                THEN /\ indexFile' = [exists |-> TRUE,
                                      vecs |-> IndexVectors(cks), of |-> cks]
                     /\ storeFile' = [exists |-> TRUE, chunks |-> cks]
                     /\ retriever' = Reloaded(indexFile', storeFile').retriever
                     /\ shared_retriever' = Reloaded(indexFile', storeFile').shared
                     /\ app' = [index_dir |-> TRUE, cleared |-> FALSE,
                                last |-> "ingest ok",
                                replaced |-> retriever.loaded]
                ELSE /\ indexFile' = IF build = "dump raises"
                                     THEN [exists |-> TRUE,
                                           vecs |-> IndexVectors(cks),
                                           of |-> cks]
                                     ELSE indexFile
                     /\ UNCHANGED <<storeFile, retriever, shared_retriever>>
                     /\ app' = [index_dir |-> TRUE, cleared |-> app.cleared,
                                last |-> "ingest error", replaced |-> FALSE]
    /\ chat' = NoChat
    /\ UNCHANGED <<buildVars, splitVars, queryVars, callVars>>

\* app.py:95-107
ClearKnowledgeBase ==
    /\ pcBuild = "idle"
    /\ processed' = <<>>
    /\ manifest' = [exists |-> FALSE, entries |-> <<>>]
    /\ indexFile' = NoIndex
    /\ storeFile' = NoStore
    /\ lastRun' = NoRun
    /\ retriever' =
          init_services(retriever, ResetShared(shared_retriever), TRUE,
                        NoIndex, NoStore).retriever
    /\ shared_retriever' =
          init_services(retriever, ResetShared(shared_retriever), TRUE,
                        NoIndex, NoStore).shared
    /\ app' = [index_dir |-> TRUE, cleared |-> TRUE, last |-> "clear",
               replaced |-> FALSE]
    /\ chat' = NoChat
    /\ UNCHANGED <<buildVars, splitVars, queryVars, callVars>>

\* app.py:49-91: the handle is loaded when there is none; the call answers
\* "System is not ready" without one, and retrieves from it otherwise
ChatFn ==
    /\ pcBuild = "idle"
    /\ retriever' =
          IF retriever.loaded THEN retriever
          ELSE init_services(retriever, shared_retriever, app.index_dir,
                             indexFile, storeFile).retriever
    /\ shared_retriever' =
          IF retriever.loaded THEN shared_retriever
          ELSE init_services(retriever, shared_retriever, app.index_dir,
                             indexFile, storeFile).shared
    /\ chat' = IF retriever'.loaded
               THEN [answered |-> TRUE, reply |-> "retrieved",
                     used |-> retriever']
               ELSE [answered |-> TRUE, reply |-> "System is not ready",
                     used |-> NoHandle]
    /\ UNCHANGED <<app, diskVars, buildVars, splitVars, queryVars, callVars>>

NextApp == AppIngest \/ ClearKnowledgeBase \/ ChatFn

\* The app from its start on an empty data directory (app.py:174)
SpecApp == Init /\ [][NextApp]_vars

\* C20: from a completed clear_knowledge_base until an admin_ingest has
\* built an index the handle is None and chat_fn answers "System is not
\* ready"; after an admin_ingest that completed without error chat_fn
\* retrieves from a Retriever that was loaded from the index and chunk list
\* now on disk, and that was not loaded before that admin_ingest.
C20_HandleFollowsIndex ==
    /\ app.cleared =>
          /\ retriever = NoHandle
          /\ chat.answered => chat.reply = "System is not ready"
    /\ (app.last = "ingest ok" /\ retriever.loaded) =>
          /\ ~retriever.stale
          /\ retriever.index = indexFile.vecs
          /\ retriever.chunks = storeFile.chunks
    /\ (app.last = "ingest ok" /\ chat.answered /\ chat.reply = "retrieved") =>
          /\ ~chat.used.stale
          /\ chat.used.index = indexFile.vecs
          /\ chat.used.chunks = storeFile.chunks

\* an admin_ingest replaced a loaded Retriever and chat_fn retrieved
C20_Witness ==
    /\ app.last = "ingest ok"
    /\ app.replaced
    /\ chat.answered
    /\ chat.reply = "retrieved"
    /\ Len(chat.used.chunks) > 0

====
